---- MODULE Spec2Model ----
(***************************************************************************)
(* Model of wandb/sdk/launch/docker.py: the inspection cache               *)
(* (docker_image_exists, docker_image_inspect), the Dockerfile generator   *)
(* (generate_dockerfile and its helpers), the image build                  *)
(* (generate_docker_image, _create_docker_build_ctx) and the run command   *)
(* (get_docker_command).                                                   *)
(*                                                                         *)
(* Python values are modelled as records of one shape per kind so that     *)
(* they can be compared; text is a sequence of one-character strings where *)
(* its characters matter (shlex_quote, len(name)).                         *)
(***************************************************************************)
EXTENDS Integers, Sequences, FiniteSets, TLC

VARIABLES
    _inspected_images,   \* docker.py:381, the module-level dict
    engineCalls,         \* number of `docker image inspect` invocations so far
    lastCall,            \* the last exists()/inspect() call: arguments and outcome
    trueRec,             \* per image: record parsed by the latest exists() that returned True
    projDir,             \* the project directory (launch_project.project_dir) on disk
    buildx_installed,    \* what docker.is_buildx_installed() answers
    euid,                \* what os.geteuid() answers
    hashSeed,            \* hash seed of the running interpreter (orders set iteration)
    rnd,                 \* two successive generate_dockerfile calls: arguments and outcomes
    bld,                 \* per build invocation (generate_docker_image): its position and locals
    cmd                  \* the last get_docker_command call: arguments and result

cacheVars == <<_inspected_images, engineCalls, lastCall, trueRec>>

hostVars == <<projDir, buildx_installed, euid, hashSeed>>

vars == <<_inspected_images, engineCalls, lastCall, trueRec,
          projDir, buildx_installed, euid, hashSeed, rnd, bld, cmd>>

(***************************************************************************)
(* Bounds of the model.                                                    *)
(***************************************************************************)
MaxEngineCalls == 3

(***************************************************************************)
(* JSON / Python values.  t is the kind, s the text of a string or the     *)
(* identity of an object, items the elements of an array.                  *)
(***************************************************************************)
JVal(t, s, items) == [t |-> t, s |-> s, items |-> items]

PyNone == JVal("null", "", <<>>)
EmptyDict == JVal("obj", "{}", <<>>)
Rec1 == JVal("obj", "rec1", <<>>)
Rec2 == JVal("obj", "rec2", <<>>)
JNum == JVal("num", "7", <<>>)
JStr(s) == JVal("str", s, <<>>)
JArr(items) == JVal("arr", "", items)

\* marks a key that is not in a dict (never a value of one)
Absent == JVal("absent", "", <<>>)

Images == {"img1", "img2"}

(***************************************************************************)
(* What `docker image inspect <image>` can give back to docker.run: a      *)
(* DockerError, or stdout text.  The text either is no JSON document or    *)
(* encodes a JSON value.                                                   *)
(***************************************************************************)
EngineError == [err |-> TRUE, valid |-> FALSE, val |-> Absent]
NotJson == [err |-> FALSE, valid |-> FALSE, val |-> Absent]
JsonText(v) == [err |-> FALSE, valid |-> TRUE, val |-> v]

InspectOutputs ==
    { EngineError, NotJson,
      JsonText(JArr(<<>>)), JsonText(JArr(<<Rec1>>)), JsonText(JArr(<<Rec2>>)),
      JsonText(JArr(<<PyNone>>)), JsonText(EmptyDict), JsonText(JNum),
      JsonText(JStr("ab")) }

\* outcome of evaluating a Python expression: a value, or a raised exception
Ok(v) == [exc |-> "none", val |-> v]
Raise(e) == [exc |-> e, val |-> Absent]

\* json.loads(data), docker.py:392
JsonLoads(out) == IF out.valid THEN Ok(out.val) ELSE Raise("ValueError")

\* first character of a non-empty str
FirstChar(s) == CASE s = "ab" -> "a" [] OTHER -> s

\* value[0], docker.py:392
Subscript0(v) ==
    CASE v.t = "arr" -> IF Len(v.items) = 0 THEN Raise("IndexError") ELSE Ok(v.items[1])
      [] v.t = "str" -> IF v.s = "" THEN Raise("IndexError") ELSE Ok(JStr(FirstChar(v.s)))
      [] v.t = "obj" -> Raise("KeyError")
      [] OTHER -> Raise("TypeError")

\* dict.get(key), docker.py:405: None for a missing key
DictGet(d, k) == IF d[k] = Absent THEN PyNone ELSE d[k]

\* dict.get(key, {}), docker.py:407
DictGetDefault(d, k) == IF d[k] = Absent THEN EmptyDict ELSE d[k]

\* the exceptions the except clause of docker_image_exists catches, docker.py:396
CaughtByExists == {"DockerError", "ValueError"}

(***************************************************************************)
(* docker_image_exists(docker_image, should_raise) against the engine      *)
(* output `out`, started with cache `cache`: the cache afterwards, the     *)
(* value returned and the exception raised.                                *)
(***************************************************************************)
ExistsResult(cache, exc, ret, rec) == [cache |-> cache, exc |-> exc, ret |-> ret, rec |-> rec]

\* docker_image_exists whose except clause records the failed lookup as {}
docker_image_exists_caching_failure(cache, docker_image, should_raise, out) ==
    LET loaded == IF out.err THEN Raise("DockerError") ELSE JsonLoads(out)
        parsed == IF loaded.exc = "none" THEN Subscript0(loaded.val) ELSE loaded
        missed == [cache EXCEPT ![docker_image] = EmptyDict]
    IN  IF parsed.exc = "none"
        THEN ExistsResult([cache EXCEPT ![docker_image] = parsed.val],
                          "none", TRUE, parsed.val)
        ELSE IF parsed.exc \in CaughtByExists
             THEN ExistsResult(missed, IF should_raise THEN parsed.exc ELSE "none",
                               FALSE, Absent)
             ELSE ExistsResult(cache, parsed.exc, FALSE, Absent)

docker_image_exists(cache, docker_image, should_raise, out) ==
    IF out.err
    THEN IF should_raise
         THEN ExistsResult(cache, "DockerError", FALSE, Absent)
         ELSE ExistsResult(cache, "none", FALSE, Absent)
    ELSE LET loaded == JsonLoads(out)
             parsed == IF loaded.exc = "none" THEN Subscript0(loaded.val) ELSE loaded
         IN  IF parsed.exc = "none"
             THEN ExistsResult([cache EXCEPT ![docker_image] = parsed.val],
                               "none", TRUE, parsed.val)
             ELSE IF parsed.exc \in CaughtByExists /\ ~should_raise
                  THEN ExistsResult(cache, "none", FALSE, Absent)
                  ELSE ExistsResult(cache, parsed.exc, FALSE, Absent)

(***************************************************************************)
(* The Dockerfile generator.                                               *)
(*                                                                         *)
(* A LaunchProject is a record of the fields docker.py reads:              *)
(*   python_version  sequence of version components, <<>> when not set     *)
(*   deps_type       "pip", "conda" or "none" (None)                       *)
(*   docker_image    "" when not set                                       *)
(*   docker_user_id  NoUid when not set (None)                             *)
(*   cuda            BOOLEAN                                               *)
(*   cuda_version    sequence of version components, <<>> when not set     *)
(* The project directory is a record: whether it exists, which of          *)
(* requirements.txt / requirements.frozen.txt it holds, and the content of *)
(* its file `train` (NoFile when there is none).                           *)
(***************************************************************************)
NoUid == -1
NoFile == <<"<no file>">>
\* a train script left in the project directory by an earlier launch
StaleTrain == <<"o", "l", "d">>

PythonVersions == { <<>>, <<"2", "7", "18">> }
CudaVersions == { <<>>, <<"11", "2">> }
DepsTypes == {"pip", "conda", "none"}
DockerImages == {"", "user/img"}
DockerUserIds == {NoUid, 0, 1000}
RunnerTypes == {"local", "sagemaker"}
EntryCmds == { <<"p", "y", " ", "a">>, <<"p", "y", " ", " ", "b">> }
HostUids == {0, 501}
HashSeeds == {"seed1", "seed2"}

LaunchProjects ==
    [python_version : PythonVersions, deps_type : DepsTypes, docker_image : DockerImages,
     docker_user_id : DockerUserIds, cuda : {FALSE}, cuda_version : {<<>>}]
    \cup
    [python_version : PythonVersions, deps_type : DepsTypes, docker_image : DockerImages,
     docker_user_id : DockerUserIds, cuda : {TRUE}, cuda_version : CudaVersions]

ProjectDirs ==
    { [exists |-> FALSE, requirements |-> FALSE, frozen |-> FALSE, train |-> NoFile] }
    \cup [exists : {TRUE}, requirements : BOOLEAN, frozen : BOOLEAN,
          train : {NoFile, StaleTrain}]

\* what the generator reads of the host: docker.is_buildx_installed(),
\* os.geteuid(), the interpreter's hash seed, the manifests of the project
HostEnv(buildx, uid, seed, dir) ==
    [buildx |-> buildx, euid |-> uid, seed |-> seed,
     requirements |-> dir.requirements, frozen |-> dir.frozen, dir_exists |-> dir.exists,
     train |-> dir.train]

\* the part of it generate_dockerfile reads
ReadByRender(env) == [env EXCEPT !.train = NoFile]

\* getpass.getuser(), docker.py:47
getuser == "alice"

\* DEFAULT_CUDA_VERSION, docker.py:31
DEFAULT_CUDA_VERSION == <<"10", "0">>

\* sys.version of the interpreter running the tool, docker.py:151
sys_version == <<"3", "9", "7">>

\* full_version[:2]
FirstTwo(parts) == IF Len(parts) >= 2 THEN SubSeq(parts, 1, 2) ELSE parts

\* get_current_python_version(), docker.py:150-154
get_current_python_version ==
    [version |-> IF Len(sys_version) >= 2 THEN FirstTwo(sys_version)
                 ELSE <<sys_version[1], "0">>,
     major |-> sys_version[1]]

\* str.split(): the maximal runs of non-blank characters
RECURSIVE SplitFrom(_, _, _)
SplitFrom(chars, i, word) ==
    IF i > Len(chars)
    THEN IF word = <<>> THEN <<>> ELSE <<word>>
    ELSE IF chars[i] = " "
         THEN (IF word = <<>> THEN <<>> ELSE <<word>>) \o SplitFrom(chars, i + 1, <<>>)
         ELSE SplitFrom(chars, i + 1, Append(word, chars[i]))

Split(chars) == SplitFrom(chars, 1, <<>>)

\* the names pkg_resources parses out of requirements.txt, lower-cased
ParsedRequirementNames == {"numpy", "torch"}

\* iteration order of the set include_only under the interpreter's hash seed
SetIterationOrder(seed) ==
    IF seed = "seed1" THEN <<"numpy", "torch">> ELSE <<"torch", "numpy">>

\* _parse_existing_requirements, docker.py:470-493: the WANDB_ONLY_INCLUDE prefix
parse_existing_requirements(env) ==
    IF env.requirements
    THEN [only_include |-> TRUE, names |-> SetIterationOrder(env.seed)]
    ELSE [only_include |-> FALSE, names |-> <<>>]

NoRequirements == [only_include |-> FALSE, names |-> <<>>]

RequirementsSection(kind, files, prefix, only, install) ==
    [kind |-> kind, files |-> files, prefix |-> prefix, only |-> only, install |-> install]

\* get_requirements_section, docker.py:229-266
get_requirements_section(lp, env) ==
    CASE lp.deps_type = "pip" ->
            RequirementsSection("pip",
                IF env.frozen
                THEN <<"src/requirements.txt", "src/requirements.frozen.txt",
                       "_wandb_bootstrap.py">>
                ELSE <<"src/requirements.txt">>,
                IF env.buildx
                THEN "RUN --mount=type=cache,mode=0777,target=/root/.cache/pip"
                ELSE "RUN WANDB_DISABLE_CACHE=true",
                IF env.frozen THEN parse_existing_requirements(env) ELSE NoRequirements,
                IF env.frozen THEN "python _wandb_bootstrap.py"
                ELSE "pip install -r requirements.txt")
      [] lp.deps_type = "conda" ->
            RequirementsSection("conda", <<"src/environment.yml">>,
                IF env.buildx
                THEN "RUN --mount=type=cache,mode=0777,target=/opt/conda/pkgs"
                ELSE "RUN WANDB_DISABLE_CACHE=true",
                NoRequirements, "conda env create -f environment.yml -n env")
      [] OTHER -> RequirementsSection("", <<>>, "", NoRequirements, "")

\* get_base_setup, docker.py:157-192
get_base_setup(lp, py_version, py_major) ==
    IF lp.cuda
    THEN [base_image |-> <<"nvidia/cuda">>
                         \o (IF lp.cuda_version # <<>> THEN lp.cuda_version
                             ELSE DEFAULT_CUDA_VERSION)
                         \o <<"runtime">>,
          python_packages |->
              IF py_major = "2"
              THEN <<"python", "libpython", "python-pip", "python-setuptools">>
              ELSE <<"python", "libpython", "python3-pip", "python3-setuptools">>,
          py_version |-> py_version]
    ELSE [base_image |-> <<"python">> \o py_version \o <<"buster">>,
          python_packages |-> <<>>,
          py_version |-> <<>>]

\* `a or b` on user ids: None and 0 are both falsy
PyOr(a, b) == IF a = NoUid \/ a = 0 THEN b ELSE a

\* get_docker_user, docker.py:44-54
get_docker_user(lp, runner_type, env) ==
    IF runner_type = "sagemaker" /\ lp.docker_image = ""
    THEN [username |-> getuser, userid |-> 0]
    ELSE [username |-> getuser, userid |-> PyOr(lp.docker_user_id, env.euid)]

UserSetup(useradd, uid, name, user) ==
    [useradd |-> useradd, uid |-> uid, name |-> name, USER |-> user]

\* get_user_setup, docker.py:269-275
get_user_setup(username, userid, runner_type) ==
    IF runner_type = "sagemaker"
    THEN UserSetup(FALSE, NoUid, "", "root")
    ELSE UserSetup(TRUE, userid, username, username)

\* get_entrypoint_setup that keeps a train script already in the project
\* directory and then renders the plain entrypoint
get_entrypoint_setup_keeping_train(entry_cmd, workdir, runner_type, env) ==
    IF runner_type = "sagemaker" /\ env.train = NoFile
    THEN IF env.dir_exists
         THEN [exc |-> "none", writes_train |-> entry_cmd,
               fragment |-> [kind |-> "sagemaker", copy |-> <<"./src/train", workdir>>,
                             argv |-> << <<"s", "h">>, <<"t", "r", "a", "i", "n">> >>]]
         ELSE [exc |-> "FileNotFoundError", writes_train |-> NoFile,
               fragment |-> [kind |-> "", copy |-> <<>>, argv |-> <<>>]]
    ELSE [exc |-> "none", writes_train |-> NoFile,
          fragment |-> [kind |-> "exec", copy |-> <<>>, argv |-> Split(entry_cmd)]]

\* get_entrypoint_setup, docker.py:278-293: the fragment, the exception raised
\* and what is written to <project_dir>/train (NoFile: nothing)
get_entrypoint_setup(entry_cmd, workdir, runner_type, env) ==
    IF runner_type = "sagemaker"
    THEN IF env.dir_exists
         THEN [exc |-> "none", writes_train |-> entry_cmd,
               fragment |-> [kind |-> "sagemaker", copy |-> <<"./src/train", workdir>>,
                             argv |-> << <<"s", "h">>, <<"t", "r", "a", "i", "n">> >>]]
         ELSE [exc |-> "FileNotFoundError", writes_train |-> NoFile,
               fragment |-> [kind |-> "", copy |-> <<>>, argv |-> <<>>]]
    ELSE [exc |-> "none", writes_train |-> NoFile,
          fragment |-> [kind |-> "exec", copy |-> <<>>, argv |-> Split(entry_cmd)]]

NoDocument == [rendered |-> FALSE]

\* generate_dockerfile, docker.py:296-343: the document (DOCKERFILE_TEMPLATE with
\* its fields filled in), the exception raised, and the write to <project_dir>/train
generate_dockerfile(lp, entry_cmd, runner_type, env) ==
    LET py == IF lp.python_version # <<>>
              THEN [version |-> FirstTwo(lp.python_version), major |-> lp.python_version[1]]
              ELSE get_current_python_version
        python_build_image ==
              IF lp.deps_type = "conda"
              THEN IF py.major = "3" THEN <<"continuumio/miniconda3", "latest">>
                   ELSE <<"continuumio/miniconda", "latest">>
              ELSE <<"python">> \o py.version
        user == get_docker_user(lp, runner_type, env)
        workdir == <<"/home", user.username>>
        entry == get_entrypoint_setup(entry_cmd, workdir, runner_type, env)
    IN  [exc |-> entry.exc,
         writes_train |-> entry.writes_train,
         doc |-> IF entry.exc # "none" THEN NoDocument
                 ELSE [rendered |-> TRUE,
                       py_build_image |-> python_build_image,
                       requirements_section |-> get_requirements_section(lp, env),
                       base_setup |-> get_base_setup(lp, py.version, py.major),
                       user_setup |-> get_user_setup(user.username, user.userid, runner_type),
                       uid |-> user.userid,
                       workdir |-> workdir,
                       entrypoint_setup |-> entry.fragment]]

\* the project directory after a render that wrote `content` to train
AfterTrainWrite(dir, content) ==
    IF content = NoFile THEN dir ELSE [dir EXCEPT !.train = content]

CurrentEnv == HostEnv(buildx_installed, euid, hashSeed, projDir)

NoOutcome == [exc |-> "none", doc |-> NoDocument]

RenderIdle ==
    [phase |-> "idle",
     lp |-> CHOOSE lp \in LaunchProjects : TRUE, entry_cmd |-> <<>>, runner_type |-> "",
     env1 |-> CurrentEnv, first |-> NoOutcome, env2 |-> CurrentEnv, second |-> NoOutcome]

HostInit ==
    /\ projDir \in ProjectDirs
    /\ buildx_installed \in BOOLEAN
    /\ euid \in HostUids
    /\ hashSeed \in HashSeeds

\* a host the other specifications keep fixed
HostFixed ==
    /\ projDir = [exists |-> TRUE, requirements |-> TRUE, frozen |-> FALSE, train |-> NoFile]
    /\ buildx_installed = TRUE
    /\ euid = 501
    /\ hashSeed = "seed1"

(***************************************************************************)
(* get_docker_command, docker.py:435-467.  Text is a sequence of           *)
(* characters; a dict is the sequence of its (key, value) pairs in         *)
(* insertion order.  A flag value is a bool, a str or an int.              *)
(***************************************************************************)
MaxEnvVars == 2
MaxDockerArgs == 2

PyTrue == [t |-> "bool", b |-> TRUE, s |-> <<>>]
PyFalse == [t |-> "bool", b |-> FALSE, s |-> <<>>]
PyStr(chars) == [t |-> "str", b |-> FALSE, s |-> chars]
PyInt(digits) == [t |-> "int", b |-> FALSE, s |-> digits]

RunImages == { <<"i", "m", "g">>, <<"m", "y", " ", "i", "m", "g">> }
EnvKeys == { <<"A">>, <<"B", " ", "C">> }
EnvValues == { <<"1", " ", "2">>, <<"x", "/", "y">>, <<"i", "t", "'", "s">> }
ArgNames == { <<"v">>, <<"g", "p", "u", "s">>, <<"r", "m">> }
ArgValues == { PyTrue, PyFalse, PyStr(<<"a", "l", "l">>), PyInt(<<"1">>) }

\* the dicts of at most n entries with keys in K and values in V
Dicts(K, V, n) ==
    { d \in UNION { [1..k -> K \X V] : k \in 0..n } :
        \A i, j \in 1..Len(d) : i # j => d[i][1] # d[j][1] }

\* the env_vars and docker_args dicts the command is built for
EnvDicts == Dicts(EnvKeys, EnvValues, MaxEnvVars)
ArgDicts == Dicts(ArgNames, ArgValues, MaxDockerArgs)

\* the characters shlex leaves unquoted: [a-zA-Z0-9_@%+=:,./-]
SafeChars == {"a", "g", "i", "l", "m", "p", "r", "s", "t", "u", "v", "x", "y",
              "A", "B", "C", "F", "T", "e", "1", "2", "/", "=", "-"}

\* s.replace("'", "'\"'\"'")
RECURSIVE EscapeQuotes(_)
EscapeQuotes(chars) ==
    IF chars = <<>> THEN <<>>
    ELSE (IF Head(chars) = "'" THEN <<"'", "\"", "'", "\"", "'">> ELSE <<Head(chars)>>)
         \o EscapeQuotes(Tail(chars))

\* shlex.quote
shlex_quote(chars) ==
    IF chars = <<>> THEN <<"'", "'">>
    ELSE IF \A i \in 1..Len(chars) : chars[i] \in SafeChars THEN chars
    ELSE <<"'">> \o EscapeQuotes(chars) \o <<"'">>

\* str(value)
PyStrOf(value) ==
    IF value.t = "bool"
    THEN (IF value.b THEN <<"T", "r", "u", "e">> ELSE <<"F", "a", "l", "s", "e">>)
    ELSE value.s

\* any truthy value taken for a boolean flag
IsBareFlag_truthy(value) ==
    IF value.t = "bool" THEN value.b ELSE value.s # <<>>

\* docker.py:454: isinstance(value, bool) and value
IsBareFlag(value) == value.t = "bool" /\ value.b

\* docker.py:448-449: the -e tokens
RECURSIVE EnvTokens(_)
EnvTokens(env_vars) ==
    IF env_vars = <<>> THEN <<>>
    ELSE << <<"-", "e">>,
            shlex_quote(Head(env_vars)[1]) \o <<"=">> \o shlex_quote(Head(env_vars)[2]) >>
         \o EnvTokens(Tail(env_vars))

\* docker.py:452-464: the tokens of the docker args
RECURSIVE ArgTokens(_)
ArgTokens(docker_args) ==
    IF docker_args = <<>> THEN <<>>
    ELSE LET name == Head(docker_args)[1]
             value == Head(docker_args)[2]
             flag == (IF Len(name) = 1 THEN <<"-">> ELSE <<"-", "-">>) \o shlex_quote(name)
         IN  (IF IsBareFlag(value) THEN <<flag>>
              ELSE <<flag, shlex_quote(PyStrOf(value))>>)
             \o ArgTokens(Tail(docker_args))

\* get_docker_command, docker.py:435-467
get_docker_command(image, env_vars, docker_args) ==
    << <<"d", "o", "c", "k", "e", "r">>, <<"r", "u", "n">>, <<"-", "-", "r", "m">> >>
    \o EnvTokens(env_vars)
    \o ArgTokens(docker_args)
    \o <<shlex_quote(image)>>

CmdIdle == [called |-> FALSE, image |-> <<>>, env_vars |-> <<>>, docker_args |-> <<>>,
            result |-> <<>>]

\* a caller runs get_docker_command(image, env_vars, docker_args)
GetDockerCommand(image, env_vars, docker_args) ==
    /\ ~cmd.called
    /\ cmd' = [called |-> TRUE, image |-> image, env_vars |-> env_vars,
               docker_args |-> docker_args,
               result |-> get_docker_command(image, env_vars, docker_args)]
    /\ UNCHANGED <<cacheVars, hostVars, rnd, bld>>

(***************************************************************************)
(* generate_docker_image, docker.py:346-378, one invocation per element of *)
(* Procs, step by step: generate_dockerfile, tempfile.mkdtemp, the copies  *)
(* of _create_docker_build_ctx, docker.build, os.remove.  Invocations      *)
(* share the project directory and interleave between steps.               *)
(* create_metadata_file is not part of docker.py; its effects are left out.*)
(***************************************************************************)
Procs == {"b1", "b2"}

\* the entry command of each invocation
EntryCmdOf(p) == IF p = "b1" THEN <<"p", "y", " ", "a">> ELSE <<"p", "y", " ", " ", "b">>

\* the image_uri argument of each invocation
ImageUriOf(p) == IF p = "b1" THEN "wandb-launch:b1" ELSE "wandb-launch:b2"

\* the launch projects the build invocations are run on
BuildProjects ==
    { lp \in LaunchProjects :
        /\ lp.deps_type = "pip" /\ ~lp.cuda
        /\ lp.docker_image = "" /\ lp.docker_user_id = NoUid }

\* diagnostic text of a failed `docker build`
Diagnostics == {"no space left on device", "pull access denied"}

\* what docker.build gives back: the tag, or a DockerError carrying the
\* engine's diagnostic text when it exits non-zero
BuildResults == {[ok |-> TRUE, diag |-> ""]} \cup [ok : {FALSE}, diag : Diagnostics]

NoCtx == [created |-> FALSE, populated |-> FALSE, src |-> <<>>, train |-> NoFile,
          runtime_txt |-> <<>>, dockerfile |-> NoDocument, on_disk |-> FALSE]

Running == [status |-> "running", exc |-> "", raised_in |-> "", msg |-> <<>>, image |-> ""]

Raised(exc, where, msg) ==
    [status |-> "raised", exc |-> exc, raised_in |-> where, msg |-> msg, image |-> ""]

Returned(image) ==
    [status |-> "returned", exc |-> "", raised_in |-> "", msg |-> <<>>, image |-> image]

BuildStart(lp, runner_type, entry_cmd, image_uri) ==
    [pc |-> "render", lp |-> lp, runner_type |-> runner_type, entry_cmd |-> entry_cmd,
     image_uri |-> image_uri, dockerfile_str |-> NoDocument, ctx |-> NoCtx,
     buildCalls |-> 0, diag |-> "", asmFailed |-> FALSE,
     removeAttempted |-> FALSE, logged |-> FALSE, outcome |-> Running]

\* docker.py:355: dockerfile_str = generate_dockerfile(...)
RenderStepOf(b, env) ==
    LET r == generate_dockerfile(b.lp, b.entry_cmd, b.runner_type, env)
    IN  IF r.exc = "none"
        THEN [b EXCEPT !.pc = "mkdtemp", !.dockerfile_str = r.doc]
        ELSE [b EXCEPT !.pc = "done", !.outcome = Raised(r.exc, "generate_dockerfile", <<>>)]

\* docker.py:518: directory = tempfile.mkdtemp()
MkdtempStepOf(b, ok) ==
    IF ok
    THEN [b EXCEPT !.pc = "populate", !.ctx = [NoCtx EXCEPT !.created = TRUE, !.on_disk = TRUE]]
    ELSE [b EXCEPT !.pc = "done", !.asmFailed = TRUE,
                   !.outcome = Raised("OSError", "_create_docker_build_ctx", <<>>)]

\* docker.py:519-536: copytree of the project directory to <directory>/src,
\* the bootstrap script, runtime.txt, the Dockerfile.  copytree raises when
\* the project directory is missing or a file of it cannot be read.
PopulateStepOf(b, dir, ioError) ==
    IF ~dir.exists
    THEN [b EXCEPT !.pc = "done", !.asmFailed = TRUE,
                   !.outcome = Raised("FileNotFoundError", "_create_docker_build_ctx", <<>>)]
    ELSE IF ioError
    THEN [b EXCEPT !.pc = "done", !.asmFailed = TRUE,
                   !.outcome = Raised("shutil.Error", "_create_docker_build_ctx", <<>>)]
    ELSE [b EXCEPT !.pc = "build",
                   !.ctx = [b.ctx EXCEPT
                               !.populated = TRUE,
                               !.src = <<dir.requirements, dir.frozen>>,
                               !.train = dir.train,
                               !.runtime_txt = IF b.lp.python_version # <<>>
                                               THEN <<"python-">> \o b.lp.python_version
                                               ELSE <<>>,
                               !.dockerfile = b.dockerfile_str]]

\* a handler that runs the build once more before giving up
OnDockerError_retrying(b, diag) ==
    IF b.buildCalls < 2
    THEN [b EXCEPT !.pc = "build"]
    ELSE [b EXCEPT !.pc = "done",
                   !.outcome = Raised("LaunchError", "generate_docker_image",
                                      <<"Error communicating with docker client: ", diag>>)]

\* docker.py:369-370: except DockerError as e: raise LaunchError(...format(e))
OnDockerError(b, diag) ==
    [b EXCEPT !.pc = "done",
              !.outcome = Raised("LaunchError", "generate_docker_image",
                                 <<"Error communicating with docker client: ", diag>>)]

\* docker.py:365-370: the docker.build call and its except clause
BuildStepOf(b, res) ==
    LET called == [b EXCEPT !.buildCalls = b.buildCalls + 1, !.diag = res.diag]
    IN  IF res.ok THEN [called EXCEPT !.pc = "cleanup"]
        ELSE OnDockerError(called, res.diag)

\* os.remove(path): unlink(2) refuses a directory (IsADirectoryError or
\* PermissionError, both OSError)
os_remove_raises(isDirectory) == isDirectory

\* docker.py:372-378: os.remove(build_ctx_path), the log on failure, return image
CleanupStepOf(b) ==
    LET failed == os_remove_raises(TRUE)
    IN  [b EXCEPT !.pc = "done", !.removeAttempted = TRUE,
                  !.logged = failed,
                  !.ctx = [b.ctx EXCEPT !.on_disk = failed],
                  !.outcome = Returned(b.image_uri)]

BuildIdle == [p \in Procs |-> BuildStart(CHOOSE lp \in BuildProjects : TRUE, "", <<>>, "")]

buildOthers == <<cacheVars, buildx_installed, euid, hashSeed, rnd, cmd>>

Render(p) ==
    /\ bld[p].pc = "render"
    /\ bld' = [bld EXCEPT ![p] = RenderStepOf(bld[p], CurrentEnv)]
    /\ projDir' = AfterTrainWrite(projDir,
                      generate_dockerfile(bld[p].lp, bld[p].entry_cmd,
                                          bld[p].runner_type, CurrentEnv).writes_train)
    /\ UNCHANGED buildOthers

Mkdtemp(p, ok) ==
    /\ bld[p].pc = "mkdtemp"
    /\ bld' = [bld EXCEPT ![p] = MkdtempStepOf(bld[p], ok)]
    /\ UNCHANGED <<projDir, buildOthers>>

Populate(p, ioError) ==
    /\ bld[p].pc = "populate"
    /\ bld' = [bld EXCEPT ![p] = PopulateStepOf(bld[p], projDir, ioError)]
    /\ UNCHANGED <<projDir, buildOthers>>

Build(p, res) ==
    /\ bld[p].pc = "build"
    /\ bld' = [bld EXCEPT ![p] = BuildStepOf(bld[p], res)]
    /\ UNCHANGED <<projDir, buildOthers>>

Cleanup(p) ==
    /\ bld[p].pc = "cleanup"
    /\ bld' = [bld EXCEPT ![p] = CleanupStepOf(bld[p])]
    /\ UNCHANGED <<projDir, buildOthers>>


Call(op, img, strict, out, failed, exc, ret, prior, invoked) ==
    [op |-> op, img |-> img, strict |-> strict, out |-> out, failed |-> failed,
     exc |-> exc, ret |-> ret, prior |-> prior, invoked |-> invoked]

NoCall == Call("none", "", FALSE, NotJson, FALSE, "none", Absent, Absent, 0)

PyBool(b) == JVal("bool", IF b THEN "True" ELSE "False", <<>>)

\* the inspect invocation or the parse of its output failed
LookupFailed(out) ==
    \/ out.err
    \/ ~out.valid
    \/ out.val.t # "arr"
    \/ Len(out.val.items) = 0

\* a caller runs docker_image_exists(docker_image, should_raise)
Exists(img, strict, out) ==
    /\ engineCalls < MaxEngineCalls
    /\ LET r == docker_image_exists(_inspected_images, img, strict, out)
       IN  /\ _inspected_images' = r.cache
           /\ trueRec' = IF r.exc = "none" /\ r.ret
                         THEN [trueRec EXCEPT ![img] = r.rec] ELSE trueRec
           /\ lastCall' = Call("exists", img, strict, out, LookupFailed(out), r.exc,
                               IF r.exc = "none" THEN PyBool(r.ret) ELSE Absent,
                               trueRec[img], 1)
    /\ engineCalls' = engineCalls + 1
    /\ UNCHANGED <<hostVars, rnd, bld, cmd>>

\* a caller runs docker_image_inspect(docker_image) and the cache answers, docker.py:405-407
InspectCached(img) ==
    /\ DictGet(_inspected_images, img) # PyNone
    /\ lastCall' = Call("inspect", img, FALSE, NotJson, FALSE, "none",
                        DictGetDefault(_inspected_images, img), trueRec[img], 0)
    /\ UNCHANGED <<_inspected_images, engineCalls, trueRec, hostVars, rnd, bld, cmd>>

\* docker_image_inspect(docker_image) when the cache gives None: it runs
\* docker_image_exists(docker_image, True) first, docker.py:405-407
InspectMiss(img, out) ==
    /\ DictGet(_inspected_images, img) = PyNone
    /\ engineCalls < MaxEngineCalls
    /\ LET r == docker_image_exists(_inspected_images, img, TRUE, out)
       IN  /\ _inspected_images' = r.cache
           /\ trueRec' = IF r.exc = "none" /\ r.ret
                         THEN [trueRec EXCEPT ![img] = r.rec] ELSE trueRec
           /\ lastCall' = Call("inspect", img, TRUE, out, LookupFailed(out), r.exc,
                               IF r.exc = "none"
                               THEN DictGetDefault(r.cache, img) ELSE Absent,
                               trueRec[img], 1)
    /\ engineCalls' = engineCalls + 1
    /\ UNCHANGED <<hostVars, rnd, bld, cmd>>

EmptyCache ==
    /\ _inspected_images = [i \in Images |-> Absent]
    /\ engineCalls = 0
    /\ lastCall = NoCall
    /\ trueRec = [i \in Images |-> Absent]

CacheInit ==
    /\ EmptyCache
    /\ HostFixed
    /\ rnd = RenderIdle
    /\ bld = BuildIdle
    /\ cmd = CmdIdle

CacheNext ==
    \/ \E img \in Images, strict \in BOOLEAN, out \in InspectOutputs : Exists(img, strict, out)
    \/ \E img \in Images : InspectCached(img)
    \/ \E img \in Images, out \in InspectOutputs : InspectMiss(img, out)

SpecCache == CacheInit /\ [][CacheNext]_vars

(***************************************************************************)
(* Two successive generate_dockerfile calls with the same arguments, the   *)
(* host changing in between.                                               *)
(***************************************************************************)

\* the first generate_dockerfile(api, launch_project, entry_cmd, runner_type)
Render1(lp, entry_cmd, runner_type) ==
    /\ rnd.phase = "idle"
    /\ LET r == generate_dockerfile(lp, entry_cmd, runner_type, CurrentEnv)
       IN  /\ rnd' = [phase |-> "once", lp |-> lp, entry_cmd |-> entry_cmd,
                      runner_type |-> runner_type,
                      env1 |-> CurrentEnv, first |-> [exc |-> r.exc, doc |-> r.doc],
                      env2 |-> CurrentEnv, second |-> NoOutcome]
           /\ projDir' = AfterTrainWrite(projDir, r.writes_train)
    /\ UNCHANGED <<cacheVars, bld, cmd, buildx_installed, euid, hashSeed>>

\* the second call, with the arguments of the first
Render2 ==
    /\ rnd.phase \in {"once", "changed"}
    /\ LET r == generate_dockerfile(rnd.lp, rnd.entry_cmd, rnd.runner_type, CurrentEnv)
       IN  /\ rnd' = [rnd EXCEPT !.phase = "twice", !.env2 = CurrentEnv,
                                 !.second = [exc |-> r.exc, doc |-> r.doc]]
           /\ projDir' = AfterTrainWrite(projDir, r.writes_train)
    /\ UNCHANGED <<cacheVars, bld, cmd, buildx_installed, euid, hashSeed>>

\* between the calls: the buildx plugin is installed or removed
BuildxChanges ==
    /\ rnd.phase = "once"
    /\ buildx_installed' = ~buildx_installed
    /\ rnd' = [rnd EXCEPT !.phase = "changed"]
    /\ UNCHANGED <<cacheVars, bld, cmd, projDir, euid, hashSeed>>

\* between the calls: the tool is run by another host user
EuidChanges ==
    /\ rnd.phase = "once"
    /\ \E u \in HostUids \ {euid} : euid' = u
    /\ rnd' = [rnd EXCEPT !.phase = "changed"]
    /\ UNCHANGED <<cacheVars, bld, cmd, projDir, buildx_installed, hashSeed>>

\* between the calls: the tool is restarted, with another hash seed
InterpreterRestarts ==
    /\ rnd.phase = "once"
    /\ \E h \in HashSeeds \ {hashSeed} : hashSeed' = h
    /\ rnd' = [rnd EXCEPT !.phase = "changed"]
    /\ UNCHANGED <<cacheVars, bld, cmd, projDir, buildx_installed, euid>>

\* between the calls: requirements.frozen.txt is written or removed
FrozenManifestChanges ==
    /\ rnd.phase = "once"
    /\ projDir.exists
    /\ projDir' = [projDir EXCEPT !.frozen = ~projDir.frozen]
    /\ rnd' = [rnd EXCEPT !.phase = "changed"]
    /\ UNCHANGED <<cacheVars, bld, cmd, buildx_installed, euid, hashSeed>>

\* between the calls: requirements.txt is written or removed
RequirementsChange ==
    /\ rnd.phase = "once"
    /\ projDir.exists
    /\ projDir' = [projDir EXCEPT !.requirements = ~projDir.requirements]
    /\ rnd' = [rnd EXCEPT !.phase = "changed"]
    /\ UNCHANGED <<cacheVars, bld, cmd, buildx_installed, euid, hashSeed>>


RenderInit ==
    /\ EmptyCache
    /\ HostInit
    /\ rnd = RenderIdle
    /\ bld = BuildIdle
    /\ cmd = CmdIdle

RenderNext ==
    \/ /\ rnd.phase = "idle"
       /\ \E lp \in LaunchProjects, ec \in EntryCmds, rt \in RunnerTypes : Render1(lp, ec, rt)
    \/ Render2
    \/ BuildxChanges
    \/ EuidChanges
    \/ InterpreterRestarts
    \/ FrozenManifestChanges
    \/ RequirementsChange

SpecRender == RenderInit /\ [][RenderNext]_vars

BuildInit ==
    /\ EmptyCache
    /\ projDir \in ProjectDirs
    /\ buildx_installed = TRUE
    /\ euid = 501
    /\ hashSeed = "seed1"
    /\ rnd = RenderIdle
    /\ cmd = CmdIdle
    /\ \E lp \in BuildProjects, rt \in [Procs -> RunnerTypes] :
         bld = [p \in Procs |-> BuildStart(lp, rt[p], EntryCmdOf(p), ImageUriOf(p))]

BuildNext ==
    \/ \E p \in Procs : Render(p)
    \/ \E p \in Procs, ok \in BOOLEAN : Mkdtemp(p, ok)
    \/ \E p \in Procs, ioError \in BOOLEAN : Populate(p, ioError)
    \/ \E p \in Procs, res \in BuildResults : Build(p, res)
    \/ \E p \in Procs : Cleanup(p)

SpecBuild == BuildInit /\ [][BuildNext]_vars

CmdInit ==
    /\ EmptyCache
    /\ HostFixed
    /\ rnd = RenderIdle
    /\ bld = BuildIdle
    /\ cmd = CmdIdle

CmdNext ==
    /\ ~cmd.called
    /\ \E image \in RunImages,
          env_vars \in EnvDicts,
          docker_args \in ArgDicts :
           GetDockerCommand(image, env_vars, docker_args)

SpecCmd == CmdInit /\ [][CmdNext]_vars

(***************************************************************************)
(* Claims about the inspection cache, checked under SpecCache.             *)
(***************************************************************************)

\* the inspect invocation and json.loads both succeeded
InvocationAndParseSucceeded(out) == ~out.err /\ out.valid

CacheKeysFromTrueExists ==
    \A img \in Images :
        _inspected_images[img] # Absent => _inspected_images[img] = trueRec[img]

CacheWrittenOnlyOnSuccess ==
    _inspected_images' # _inspected_images =>
        /\ lastCall'.invoked = 1
        /\ lastCall'.exc = "none"
        /\ InvocationAndParseSucceeded(lastCall'.out)
        /\ _inspected_images'[lastCall'.img] = trueRec'[lastCall'.img]
        /\ \A other \in Images \ {lastCall'.img} :
               _inspected_images'[other] = _inspected_images[other]

\* C2: every key of the inspection cache holds the record parsed by a
\* docker_image_exists call that returned True (its inspect invocation and
\* json.loads both succeeded), and a step whose lookup failed adds or changes
\* no cache entry.
C2_CacheHoldsOnlySuccessfulLookups ==
    /\ [](CacheKeysFromTrueExists)
    /\ [][CacheWrittenOnlyOnSuccess]_vars

\* C2 witness: a lookup has been cached for one image and a later lookup of
\* the other image has failed, leaving that image out of the cache.
C2_Witness ==
    \E a, b \in Images :
        /\ a # b
        /\ _inspected_images[a] = Rec1
        /\ _inspected_images[b] = Absent
        /\ lastCall.img = b
        /\ ~InvocationAndParseSucceeded(lastCall.out)
        /\ lastCall.invoked = 1

\* C3: docker_image_inspect for an image for which docker_image_exists has
\* returned True returns the record that call parsed, raises nothing and
\* makes no engine invocation, whatever the record is.
C3_InspectAfterTrueExistsUsesCache ==
    (lastCall.op = "inspect" /\ lastCall.prior # Absent) =>
        /\ lastCall.invoked = 0
        /\ lastCall.exc = "none"
        /\ lastCall.ret = lastCall.prior

\* C3 for the records that are not None: the case the code gets right
C3_InspectAfterTrueExistsNotNone ==
    (lastCall.op = "inspect" /\ lastCall.prior \notin {Absent, PyNone}) =>
        /\ lastCall.invoked = 0
        /\ lastCall.exc = "none"
        /\ lastCall.ret = lastCall.prior

\* C4: docker_image_exists on a failed lookup (engine error, output that is
\* not JSON, JSON that is not a non-empty array) returns False and raises
\* nothing when should_raise is false, and raises when should_raise is true.
C4_ExistsFailureFalseUnlessStrict ==
    (lastCall.op = "exists" /\ lastCall.failed) =>
        IF lastCall.strict
        THEN lastCall.exc # "none"
        ELSE lastCall.exc = "none" /\ lastCall.ret = PyBool(FALSE)

\* C4 restricted to the failures the except clause names (DockerError, ValueError)
C4_ExistsCaughtFailures ==
    (lastCall.op = "exists" /\ ~InvocationAndParseSucceeded(lastCall.out)) =>
        IF lastCall.strict
        THEN lastCall.exc \in CaughtByExists
        ELSE lastCall.exc = "none" /\ lastCall.ret = PyBool(FALSE)

(***************************************************************************)
(* Claims about generate_dockerfile, checked under SpecRender.             *)
(***************************************************************************)

RenderStep == rnd'.phase # rnd.phase /\ rnd'.phase \in {"once", "twice"}

\* C8: generate_dockerfile changes nothing: not the project directory, not
\* the inspection cache, not a build invocation, for every runner type.
C8_RenderChangesNothing ==
    [][RenderStep => UNCHANGED <<projDir, cacheVars, bld, cmd,
                                 buildx_installed, euid, hashSeed>>]_vars

\* C8 for the runner types other than sagemaker: the case the code gets right
C8_RenderChangesNothingUnlessSagemaker ==
    [][(RenderStep /\ rnd'.runner_type # "sagemaker") =>
           UNCHANGED <<projDir, cacheVars, bld, cmd,
                       buildx_installed, euid, hashSeed>>]_vars

\* C9: for sagemaker the document has no useradd and runs as root; for any
\* other runner it creates a user whose uid is docker_user_id when that is
\* set, else the host's effective uid, and switches to that user.
C9_UserSetup ==
    (rnd.phase # "idle" /\ rnd.first.doc.rendered) =>
        LET setup == rnd.first.doc.user_setup
        IN  IF rnd.runner_type = "sagemaker"
            THEN ~setup.useradd /\ setup.USER = "root"
            ELSE /\ setup.useradd
                 /\ setup.uid = (IF rnd.lp.docker_user_id # NoUid
                                 THEN rnd.lp.docker_user_id ELSE rnd.env1.euid)
                 /\ setup.USER = setup.name

\* C9 with a docker_user_id of 0 read as not set: what the code does
C9_UserSetupZeroAsUnset ==
    (rnd.phase # "idle" /\ rnd.first.doc.rendered) =>
        LET setup == rnd.first.doc.user_setup
        IN  IF rnd.runner_type = "sagemaker"
            THEN ~setup.useradd /\ setup.USER = "root"
            ELSE /\ setup.useradd
                 /\ setup.uid = (IF rnd.lp.docker_user_id \notin {NoUid, 0}
                                 THEN rnd.lp.docker_user_id ELSE rnd.env1.euid)
                 /\ setup.USER = setup.name

(***************************************************************************)
(* Claims about generate_docker_image, checked under SpecBuild.            *)
(***************************************************************************)

\* C1: an invocation that created its context directory and whose docker
\* build call has completed, with success or failure, does not end before
\* os.remove of the context directory has been attempted; the directory is
\* then deleted, or left on disk with a logged message.
C1_ContextRemovalAttemptedAfterBuild ==
    \A p \in Procs :
        (bld[p].pc = "done" /\ bld[p].ctx.created /\ bld[p].buildCalls > 0) =>
            /\ bld[p].removeAttempted
            /\ ~bld[p].ctx.on_disk \/ bld[p].logged

\* C1 for every end of an invocation that created a context directory
C1_ContextRemovalAttemptedAlways ==
    \A p \in Procs :
        (bld[p].pc = "done" /\ bld[p].ctx.created) => bld[p].removeAttempted

\* C1 for the invocations whose build succeeded: the case the code gets right
C1_ContextRemovalAttemptedOnSuccess ==
    \A p \in Procs :
        (bld[p].pc = "done" /\ bld[p].outcome.status = "returned") =>
            /\ bld[p].removeAttempted
            /\ ~bld[p].ctx.on_disk \/ bld[p].logged

\* C5: an invocation whose docker build failed ends by raising a LaunchError
\* that carries the engine's diagnostic text, returns no image and has
\* called docker build exactly once.
C5_BuildFailureIsTerminal ==
    \A p \in Procs :
        bld[p].diag # "" =>
            /\ bld[p].pc = "done"
            /\ bld[p].outcome.status = "raised"
            /\ bld[p].outcome.exc = "LaunchError"
            /\ bld[p].outcome.msg = <<"Error communicating with docker client: ", bld[p].diag>>
            /\ bld[p].outcome.image = ""
            /\ bld[p].buildCalls = 1

\* C5 witness: one invocation has ended on a failed build while the other
\* has returned its image.
C5_Witness ==
    \E p, q \in Procs :
        /\ bld[p].pc = "done" /\ bld[p].diag = "pull access denied"
        /\ bld[p].outcome.exc = "LaunchError"
        /\ bld[q].pc = "done" /\ bld[q].outcome.status = "returned"

\* C6: an invocation whose context could not be created or populated ends
\* with an AssemblyFailure, a kind of its own and not the raw OS error, and
\* never calls docker build.
C6_AssemblyFailureBeforeBuild ==
    \A p \in Procs :
        bld[p].asmFailed =>
            /\ bld[p].pc = "done"
            /\ bld[p].outcome.status = "raised"
            /\ bld[p].outcome.exc = "AssemblyFailure"
            /\ bld[p].buildCalls = 0

\* C6 without the error kind: what the code does
C6_AssemblyErrorAbortsBeforeBuild ==
    \A p \in Procs :
        bld[p].asmFailed =>
            /\ bld[p].pc = "done"
            /\ bld[p].outcome.status = "raised"
            /\ bld[p].outcome.raised_in = "_create_docker_build_ctx"
            /\ bld[p].outcome.image = ""
            /\ bld[p].buildCalls = 0

\* both invocations build for the root-mandated backend; they share the
\* project directory and have different entry commands
BothSagemaker ==
    /\ \A p \in Procs : bld[p].runner_type = "sagemaker"
    /\ \A p, q \in Procs : p # q => bld[p].entry_cmd # bld[q].entry_cmd

\* C11: when two invocations for the root-mandated backend run concurrently
\* on one project directory with different entry commands, the train script
\* copied into an invocation's build context holds that invocation's own
\* entry command, whatever the interleaving of the render and assemble steps.
C11_ContextTrainIsOwnEntryCmd ==
    BothSagemaker =>
        \A p \in Procs :
            bld[p].ctx.populated => bld[p].ctx.train = bld[p].entry_cmd

\* C11 for what the code does give: the copied train script holds the entry
\* command of one of the invocations, the last one to have rendered
C11_ContextTrainIsSomeEntryCmd ==
    BothSagemaker =>
        \A p \in Procs :
            bld[p].ctx.populated =>
                \E q \in Procs :
                    /\ bld[q].pc # "render"
                    /\ bld[p].ctx.train = bld[q].entry_cmd

\* C11 for an invocation that renders and assembles with no render of the
\* other invocation in between: the case the code gets right
C11_OwnEntryCmdWhenOtherNotRendered ==
    BothSagemaker =>
        \A p, q \in Procs :
            (p # q /\ bld[p].ctx.populated /\ bld[q].pc = "render") =>
                bld[p].ctx.train = bld[p].entry_cmd

(***************************************************************************)
(* Claims about get_docker_command, checked under SpecCmd.                 *)
(***************************************************************************)

\* number of tokens a docker arg takes: the flag, and its value unless the
\* value is the boolean True
ArgWidth(arg) == IF arg[2] = PyTrue THEN 1 ELSE 2

RECURSIVE WidthBefore(_, _)
WidthBefore(docker_args, j) ==
    IF j <= 1 THEN 0 ELSE WidthBefore(docker_args, j - 1) + ArgWidth(docker_args[j - 1])

\* C10: the command is `docker run --rm`, then one -e KEY=VALUE pair per
\* environment variable, then per docker arg a -name token (one-character
\* name) or a --name token (any other name) followed by the value token
\* exactly when the value is not the boolean True, then the image as the
\* last token; keys, values, names and the image are shell-quoted.
C10_RunCommandShape ==
    cmd.called =>
        LET r == cmd.result
            n == Len(cmd.env_vars)
            m == Len(cmd.docker_args)
            argsAt == 3 + 2 * n
            pos(j) == argsAt + WidthBefore(cmd.docker_args, j) + 1
        IN  /\ Len(r) = argsAt + WidthBefore(cmd.docker_args, m + 1) + 1
            /\ r[1] = <<"d", "o", "c", "k", "e", "r">>
            /\ r[2] = <<"r", "u", "n">>
            /\ r[3] = <<"-", "-", "r", "m">>
            /\ \A i \in 1..n :
                   /\ r[3 + 2 * i - 1] = <<"-", "e">>
                   /\ r[3 + 2 * i] = shlex_quote(cmd.env_vars[i][1]) \o <<"=">>
                                     \o shlex_quote(cmd.env_vars[i][2])
            /\ \A j \in 1..m :
                   LET name == cmd.docker_args[j][1]
                       value == cmd.docker_args[j][2]
                   IN  /\ r[pos(j)] = (IF Len(name) = 1 THEN <<"-">> ELSE <<"-", "-">>)
                                      \o shlex_quote(name)
                       /\ value # PyTrue => r[pos(j) + 1] = shlex_quote(PyStrOf(value))
            /\ r[Len(r)] = shlex_quote(cmd.image)

\* C10 witness: two environment variables that need quoting, a bare
\* one-character flag and a valued long flag, an image name with a blank.
C10_Witness ==
    /\ cmd.called
    /\ Len(cmd.env_vars) = 2
    /\ cmd.env_vars[1] = << <<"B", " ", "C">>, <<"i", "t", "'", "s">> >>
    /\ cmd.docker_args = << << <<"v">>, PyTrue >>, << <<"g", "p", "u", "s">>, PyStr(<<"a", "l", "l">>) >> >>
    /\ cmd.image = <<"m", "y", " ", "i", "m", "g">>
    /\ Len(cmd.result) = 11

====
